---- MODULE Spec2Model ----
(***************************************************************************)
(* Question-selection and session-lifecycle engine of the exam-preparation *)
(* backend: SmartQuestionSelector, SessionManager and the /sessions and    *)
(* /exam routers that drive them, over the question_usage,                 *)
(* question_sessions, questions and user_progress tables.                  *)
(***************************************************************************)
EXTENDS Integers, Sequences, FiniteSets, TLC

\* ------------------------------------------------------------------ bounds
\* number of session ids that are ever generated
MaxSessions == 2
\* largest question_count a create request carries
MaxCount == 2
\* questions per subject of an exam-mode session (50 in the source, scaled)
ExamCount == 1
\* number of committed writes in one run (one clock tick each)
MaxSteps == 3
\* most sessions of the answer history a completion is checked against
MaxHistory == 3
\* most answered usage rows of the question the quality tracker is run on
MaxAnswered == 20
\* the larger of the two stored usage_count values that question starts with
MaxAssigned == 12

\* ------------------------------------------------------- static catalogue
Users == {"u1", "u2"}
\* users.tier: u1 may use exam mode, u2 may not
tier == [u \in Users |-> IF u = "u1" THEN "premium" ELSE "basic"]
Procs == {"r1", "r2"}
Answers == {"A", "B"}
None == "None"
NoTime == 0
NoScores == [a \in {} |-> 0]
QuestionIds == {"q1", "q2", "q3", "q4", "q5"}

\* immutable columns of the questions table (models.py Question)
Bank ==
  [q \in QuestionIds |->
     CASE q = "q1" -> [test_category |-> "cpns", subject |-> "tiu", subtype |-> "verbal",
                       difficulty |-> "sulit", correct_answer |-> "A", answer_scores |-> NoScores]
       [] q = "q2" -> [test_category |-> "cpns", subject |-> "tiu", subtype |-> "verbal",
                       difficulty |-> "mudah", correct_answer |-> "B", answer_scores |-> NoScores]
       [] q = "q3" -> [test_category |-> "cpns", subject |-> "tiu", subtype |-> "numerik",
                       difficulty |-> "sulit", correct_answer |-> "A", answer_scores |-> NoScores]
       [] q = "q4" -> [test_category |-> "cpns", subject |-> "twk", subtype |-> None,
                       difficulty |-> "sulit", correct_answer |-> "B", answer_scores |-> NoScores]
       [] OTHER    -> [test_category |-> "cpns", subject |-> "tkp", subtype |-> None,
                       difficulty |-> "sulit", correct_answer |-> None,
                       answer_scores |-> [a \in Answers |-> IF a = "A" THEN 5 ELSE 3]]]


\* exam structure of routers/exam.py, with ExamCount questions per subject
subject_distribution(test_category) ==
  IF test_category = "cpns"
    THEN [s \in {"tiu", "twk", "tkp"} |-> ExamCount]
    ELSE [s \in {"bahasa_inggris", "tiu", "twk"} |-> ExamCount]

\* ------------------------------------------------------------------ state
VARIABLES
  questions,   \* questions table, mutable columns: usage_count, is_used,
               \* last_used_at, correct_rate
  usage,       \* question_usage table: sequence of rows in insertion order
  sessions,    \* question_sessions table: session_id -> row
  progress,    \* user_progress table: user_id -> row
  issued,      \* number of session ids generated so far
  now,         \* the clock read by datetime.now(timezone.utc)
  freshOf,     \* session_id -> the questions tiers 1 and 2 delivered to it
  pending,     \* create requests between their select step and their commit
  response     \* what the last request returned to its caller

vars == <<questions, usage, sessions, progress, issued, now, freshOf, pending, response>>

\* the clock advances by one tick with every request that commits a write
Tick == now < MaxSteps /\ now' = now + 1

Idle == [state |-> "idle"]

\* the request that was served last, what it returned (HTTP code, error, payload)
\* and whether it committed a write
NoResp ==
  [op |-> "none", code |-> 0, error |-> None, wrote |-> TRUE, is_correct |-> FALSE,
   available |-> 0, needed |-> 0]

Resp(op, code, wrote) == [NoResp EXCEPT !.op = op, !.code = code, !.wrote = wrote]

\* a run is followed up to and including its first request that commits nothing
Live == response.wrote

Perms(S) ==
  {s \in [1..Cardinality(S) -> S] : \A i, j \in 1..Cardinality(S) : s[i] = s[j] => i = j}

Range(s) == {s[i] : i \in 1..Len(s)}

\* rows of the question_usage table that satisfy a filter
UsageOfUser(U, user_id) == {i \in 1..Len(U) : U[i].user_id = user_id}
UsageOfSession(U, session_id) == {i \in 1..Len(U) : U[i].session_id = session_id}

\* the owner-scoped session lookup: session_id and user_id both match
Owned(S, session_id, user_id) ==
  IF session_id \in DOMAIN S THEN S[session_id].user_id = user_id ELSE FALSE

\* the used_questions subquery of select_new_questions
\* faulty variant: only answered rows count as seen
used_questions_answered(U, user_id) ==
  {U[i].question_id : i \in {j \in UsageOfUser(U, user_id) : U[j].user_answered}}

used_questions(U, user_id) == {U[i].question_id : i \in UsageOfUser(U, user_id)}

\* ------------------------------------------------------------- selector
\* the default split that select_new_questions applies to a flat count
DefaultDistribution(count) ==
  [d \in {"mudah", "sedang", "sulit"} |->
     CASE d = "mudah"  -> (count * 4) \div 10
       [] d = "sedang" -> (count * 4) \div 10
       [] OTHER        -> count - (count * 4) \div 10 - (count * 4) \div 10]

\* ORDER BY coalesce(usage_count, 0) ASC, random() LIMIT n: every outcome
\* faulty variant: the usage_count sort key is dropped, ORDER BY random() alone
LeastUsedFirstUnsorted(Q, E, n) ==
  IF n >= Cardinality(E) THEN {E} ELSE {S \in SUBSET E : Cardinality(S) = n}

LeastUsedFirst(Q, E, n) ==
  IF n >= Cardinality(E)
    THEN {E}
    ELSE {S \in SUBSET E :
            /\ Cardinality(S) = n
            /\ \A s \in S : \A e \in E \ S : Q[s].usage_count <= Q[e].usage_count}

\* ORDER BY random() LIMIT n: every outcome
RandomLimit(E, n) ==
  IF n >= Cardinality(E) THEN {E} ELSE {S \in SUBSET E : Cardinality(S) = n}

\* the per-difficulty query of select_new_questions
Eligible(U, user_id, test_category, subject, difficulty, subtype) ==
  LET used == used_questions(U, user_id)
  IN {q \in QuestionIds :
        /\ Bank[q].test_category = test_category
        /\ Bank[q].subject = subject
        /\ Bank[q].difficulty = difficulty
        /\ q \notin used
        /\ (subtype # None => Bank[q].subtype = subtype)}

NoDist == [d \in {} |-> 0]

\* the loop of select_new_questions over the difficulties left to serve: every
\* outcome, as the questions selected and the sum of the available counts
RECURSIVE SelectByDifficulty(_, _, _, _, _, _, _, _)
SelectByDifficulty(Q, U, user_id, test_category, subject, distribution, left, subtype) ==
  IF left = {}
    THEN {[questions |-> {}, total_available |-> 0]}
    ELSE LET difficulty == CHOOSE d \in left : TRUE
             available == Eligible(U, user_id, test_category, subject, difficulty, subtype)
             available_count == Cardinality(available)
         IN {[questions |-> got \cup rest.questions,
              total_available |-> available_count + rest.total_available] :
               got \in LeastUsedFirst(Q, available, distribution[difficulty]),
               rest \in SelectByDifficulty(Q, U, user_id, test_category, subject,
                                          distribution, left \ {difficulty}, subtype)}

\* select_new_questions: the set of results it can return
select_new_questions(Q, U, user_id, test_category, subject, count, dist, subtype) ==
  LET difficulty_distribution == IF DOMAIN dist = {} THEN DefaultDistribution(count) ELSE dist
  IN SelectByDifficulty(Q, U, user_id, test_category, subject, difficulty_distribution,
                        DOMAIN difficulty_distribution, subtype)

\* _get_recycle_questions: the set of results it can return
\* faulty variant: the backfill is limited to one question fewer than asked
_get_recycle_questions_short(test_category, subject, count, exclude_ids, subtype) ==
  RandomLimit({q \in QuestionIds :
                 /\ Bank[q].test_category = test_category
                 /\ Bank[q].subject = subject
                 /\ q \notin exclude_ids
                 /\ (subtype # None => Bank[q].subtype = subtype)}, count - 1)

_get_recycle_questions(test_category, subject, count, exclude_ids, subtype) ==
  RandomLimit({q \in QuestionIds :
                 /\ Bank[q].test_category = test_category
                 /\ Bank[q].subject = subject
                 /\ q \notin exclude_ids
                 /\ (subtype # None => Bank[q].subtype = subtype)}, count)

\* one question_usage row as mark_questions_used and the exam loop create it
NewUsage(question_id, user_id, session_id, used_at, was_correct) ==
  [question_id |-> question_id, user_id |-> user_id, session_id |-> session_id,
   used_at |-> used_at, user_answered |-> FALSE, user_answer |-> None,
   was_correct |-> was_correct]

\* faulty variant: the session is committed and no row is written
MarkedRowsNone(question_ids, user_id, session_id, t) == << >>

\* mark_questions_used: rows appended for question_ids, in order
MarkedRows(question_ids, user_id, session_id, t) ==
  [i \in 1..Len(question_ids) |-> NewUsage(question_ids[i], user_id, session_id, t, None)]

\* mark_questions_used: the questions table after the stat updates; read holds
\* the usage_count each Question object carried when the request loaded it
MarkedQuestions(Q, read, question_ids, t) ==
  [q \in QuestionIds |->
     IF q \in Range(question_ids)
       THEN [Q[q] EXCEPT !.is_used = TRUE, !.usage_count = read[q] + 1,
                         !.last_used_at = t]
       ELSE Q[q]]

\* the questions_data entry frozen into a session
QData(q, with_scores) ==
  [question_id |-> q, difficulty |-> Bank[q].difficulty,
   correct_answer |-> Bank[q].correct_answer,
   answer_scores |-> IF with_scores THEN Bank[q].answer_scores ELSE NoScores]

NoScore == [num |-> 0, den |-> 0]

\* the QuestionSession row built by the three create paths
NewSession(user_id, test_category, subject, subtype, mode, total, qs, with_scores, unanswered, t) ==
  [user_id |-> user_id, test_category |-> test_category, subject |-> subject,
   subtype |-> subtype, mode |-> mode, total_questions |-> total,
   questions_data |-> [i \in 1..Len(qs) |-> QData(qs[i], with_scores)],
   status |-> "created", created_at |-> t, started_at |-> NoTime, completed_at |-> NoTime,
   correct_count |-> 0, incorrect_count |-> 0, unanswered_count |-> unanswered,
   score |-> NoScore]

\* ------------------------------------------------ create_new_session
\* tier 1 of create_new_session: select_new_questions under forced_distribution
Tier1(Q, U, user_id, test_category, subject, count, subtype) ==
  LET forced_distribution == [d \in {"hard"} |-> count]
  IN select_new_questions(Q, U, user_id, test_category, subject, count,
                          forced_distribution, subtype)

\* tiers 1-3 of create_new_session: every question set they can assemble
TierPlans(Q, U, user_id, test_category, subject, count, subtype) ==
  UNION {
    LET t1 == r1.questions
        short1 == Cardinality(t1) < count
    IN UNION {
         LET t2 == IF short1 THEN t1 \cup r2.questions ELSE t1
             avail == IF short1 THEN Cardinality(t2) ELSE r1.total_available
             short2 == Cardinality(t2) < count
         IN {[fresh |-> t2,
              all |-> IF short2 THEN t2 \cup old ELSE t2,
              total_available |-> avail] :
               old \in _get_recycle_questions(test_category, subject,
                                             count - Cardinality(t2), t2, subtype)} :
         r2 \in select_new_questions(Q, U, user_id, test_category, subject,
                                     count - Cardinality(t1), NoDist, subtype)} :
    r1 \in Tier1(Q, U, user_id, test_category, subject, count, subtype)}

UsageCounts(Q) == [q \in QuestionIds |-> Q[q].usage_count]

\* faulty variant: an empty session is persisted instead of the failure
CnsFailEmptySession(user_id, count, plan) ==
  /\ plan.all = {}
  /\ issued < MaxSessions
  /\ Tick
  /\ sessions' = sessions @@ (issued + 1 :>
        NewSession(user_id, None, None, None, "practice", 0, << >>, TRUE, 0, now'))
  /\ freshOf' = freshOf @@ (issued + 1 :> {})
  /\ issued' = issued + 1
  /\ response' = Resp("create", 200, TRUE)
  /\ UNCHANGED <<questions, usage, progress>>

\* lines 120-129: nothing assembled, nothing written
CnsFail(user_id, count, plan) ==
  /\ plan.all = {}
  /\ response' = [Resp("create", 400, FALSE) EXCEPT
                    !.error = "insufficient_questions",
                    !.available = plan.total_available, !.needed = count]
  /\ UNCHANGED <<questions, usage, sessions, progress, issued, now, freshOf>>

\* lines 131-212: shuffle, session row, mark_questions_used, commit
CnsPersist(user_id, test_category, subject, count, subtype, plan, read) ==
  /\ plan.all # {}
  /\ issued < MaxSessions
  /\ Tick
  /\ \E current_questions \in Perms(plan.all) :
       LET session_id == issued + 1
       IN /\ sessions' = sessions @@ (session_id :>
                 NewSession(user_id, test_category, subject, subtype, "practice",
                            Len(current_questions), current_questions, TRUE,
                            Len(current_questions), now'))
          /\ usage' = usage \o MarkedRows(current_questions, user_id, session_id, now')
          /\ questions' = MarkedQuestions(questions, read, current_questions, now')
          /\ freshOf' = freshOf @@ (session_id :> plan.fresh)
          /\ issued' = session_id
          /\ response' = Resp("create", 200, TRUE)
  /\ UNCHANGED progress

\* POST /sessions/create -> SessionManager.create_new_session, one request at a time
CreateNewSession(user_id, test_category, subject, count, subtype) ==
  /\ Live
  /\ \E plan \in TierPlans(questions, usage, user_id, test_category, subject, count, subtype) :
       \/ CnsFail(user_id, count, plan)
       \/ CnsPersist(user_id, test_category, subject, count, subtype, plan,
                     UsageCounts(questions))
  /\ UNCHANGED pending

\* the same handler when requests overlap: the select step of one request ...
BeginCreate(p, user_id, test_category, subject, count, subtype) ==
  /\ Live
  /\ pending[p] = Idle
  /\ \E plan \in TierPlans(questions, usage, user_id, test_category, subject, count, subtype) :
       pending' = [pending EXCEPT ![p] =
                     [state |-> "selected", user_id |-> user_id,
                      test_category |-> test_category, subject |-> subject,
                      count |-> count, subtype |-> subtype, plan |-> plan,
                      read |-> [q \in plan.all |-> questions[q].usage_count]]]
  /\ UNCHANGED <<questions, usage, sessions, progress, issued, now, freshOf, response>>

\* ... and its commit, with other requests' steps in between
CommitCreate(p) ==
  /\ Live
  /\ pending[p] # Idle
  /\ LET r == pending[p]
     IN \/ CnsFail(r.user_id, r.count, r.plan)
        \/ CnsPersist(r.user_id, r.test_category, r.subject, r.count, r.subtype, r.plan, r.read)
  /\ pending' = [pending EXCEPT ![p] = Idle]

\* ------------------------------------------------ create_review_session
\* select_review_questions: owner-scoped lookup, rows ORDER BY usage_id. usage_id is
\* "use_" + 12 random hex digits, so the order is any order of the rows
select_review_questions(S, U, user_id, original_session_id) ==
  IF ~Owned(S, original_session_id, user_id)
    THEN {[error |-> "Session not found or not owned by user", questions |-> << >>]}
    ELSE LET rows == {i \in UsageOfSession(U, original_session_id) : U[i].user_id = user_id}
         IN {[error |-> None, questions |-> [k \in 1..Len(ord) |-> U[ord[k]].question_id]] :
               ord \in Perms(rows)}

\* the fresh rows create_review_session adds, one per replayed question
\* faulty variant: every replayed question gets two rows
ReviewRowsTwice(qs, user_id, session_id, t) ==
  [i \in 1..(2 * Len(qs)) |->
     NewUsage(qs[((i - 1) % Len(qs)) + 1], user_id, session_id, t, "False")]

ReviewRows(qs, user_id, session_id, t) ==
  [i \in 1..Len(qs) |-> NewUsage(qs[i], user_id, session_id, t, "False")]

\* POST /sessions/create-review -> SessionManager.create_review_session
CreateReviewSession(user_id, original_session_id) ==
  /\ Live
  /\ \E review_result \in select_review_questions(sessions, usage, user_id, original_session_id) :
       \/ /\ review_result.error # None
          /\ response' = [Resp("create_review", 404, FALSE) EXCEPT
                            !.error = review_result.error]
          /\ UNCHANGED <<questions, usage, sessions, progress, issued, now, freshOf>>
       \/ /\ review_result.error = None
          /\ issued < MaxSessions
          /\ Tick
          /\ LET session_id == issued + 1
                 original_obj == sessions[original_session_id]
                 qs == review_result.questions
             IN /\ sessions' = sessions @@ (session_id :>
                       NewSession(user_id, original_obj.test_category, original_obj.subject,
                                  original_obj.subtype, "review", Len(qs), qs, FALSE,
                                  Len(qs), now'))
                /\ usage' = usage \o ReviewRows(qs, user_id, session_id, now')
                /\ freshOf' = freshOf @@ (session_id :> {})
                /\ issued' = session_id
                /\ response' = Resp("create_review", 200, TRUE)
          /\ UNCHANGED <<questions, progress>>
  /\ UNCHANGED pending

\* ------------------------------------------------ create_exam_session
\* the per-subject unseen query of create_exam_session and its three limits
ExamPicks(U, user_id, test_category, subject, count) ==
  LET seen_ids == {U[i].question_id :
                     i \in {j \in UsageOfUser(U, user_id) :
                              Bank[U[j].question_id].subject = subject}}
      unseen(d) == {q \in QuestionIds : /\ Bank[q].test_category = test_category
                                        /\ Bank[q].subject = subject
                                        /\ q \notin seen_ids
                                        /\ Bank[q].difficulty = d}
      easy_count == count \div 3
      medium_count == count \div 3
      hard_count == count - easy_count - medium_count
  IN {e \cup m \cup h : e \in RandomLimit(unseen("mudah"), easy_count),
                        m \in RandomLimit(unseen("sedang"), medium_count),
                        h \in RandomLimit(unseen("sulit"), hard_count)}

\* POST /exam/create
CreateExamSession(user_id, test_category) ==
  LET dist == subject_distribution(test_category)
      total_questions == Cardinality(DOMAIN dist) * ExamCount
      OfSubject(T, s) == {q \in T : Bank[q].subject = s}
  IN /\ Live
     /\ \/ /\ tier[user_id] # "premium"
           /\ response' = [Resp("create_exam", 403, FALSE) EXCEPT
                             !.error = "premium_required"]
           /\ UNCHANGED <<questions, usage, sessions, issued, now, freshOf>>
        \/ /\ tier[user_id] = "premium"
           /\ \E chosen \in SUBSET {q \in QuestionIds : Bank[q].subject \in DOMAIN dist} :
                LET picks == [s \in DOMAIN dist |-> OfSubject(chosen, s)]
                IN /\ \A s \in DOMAIN dist :
                        picks[s] \in ExamPicks(usage, user_id, test_category, s, dist[s])
                   /\ \/ /\ \E s \in DOMAIN dist : Cardinality(picks[s]) < dist[s]
                         /\ response' = [Resp("create_exam", 400, FALSE) EXCEPT
                                           !.error = "insufficient_questions"]
                         /\ UNCHANGED <<questions, usage, sessions, issued, now, freshOf>>
                      \/ /\ \A s \in DOMAIN dist : Cardinality(picks[s]) >= dist[s]
                         /\ issued < MaxSessions
                         /\ Tick
                         /\ \E all_questions \in Perms(chosen) :
                              LET session_id == issued + 1
                              IN /\ sessions' = sessions @@ (session_id :>
                                        NewSession(user_id, test_category, None, None, "exam",
                                                   total_questions, all_questions, FALSE, 0,
                                                   now'))
                                 /\ usage' = usage \o MarkedRows(all_questions, user_id,
                                                                 session_id, now')
                                 /\ questions' = MarkedQuestions(questions,
                                                    UsageCounts(questions), all_questions, now')
                                 /\ freshOf' = freshOf @@ (session_id :> {})
                                 /\ issued' = session_id
                                 /\ response' = Resp("create_exam", 200, TRUE)
     /\ UNCHANGED <<progress, pending>>

\* faulty variant: every start stamps started_at again
start_session_restamp(user_id, session_id) ==
  /\ Live
  /\ \/ /\ ~Owned(sessions, session_id, user_id)
        /\ response' = Resp("start", 404, FALSE)
        /\ UNCHANGED <<sessions, now>>
     \/ /\ Owned(sessions, session_id, user_id)
        /\ \/ /\ sessions[session_id].status \notin {"in_progress", "created"}
              /\ response' = Resp("start", 400, FALSE)
              /\ UNCHANGED <<sessions, now>>
           \/ /\ sessions[session_id].status \in {"in_progress", "created"}
              /\ Tick
              /\ sessions' = [sessions EXCEPT ![session_id].status = "in_progress",
                                              ![session_id].started_at = now']
              /\ response' = Resp("start", 200, TRUE)
  /\ UNCHANGED <<questions, usage, progress, issued, freshOf, pending>>

\* ------------------------------------------------ start
\* POST /sessions/{session_id}/start
start_session(user_id, session_id) ==
  /\ Live
  /\ \/ /\ ~Owned(sessions, session_id, user_id)
        /\ response' = Resp("start", 404, FALSE)
        /\ UNCHANGED <<sessions, now>>
     \/ /\ Owned(sessions, session_id, user_id)
        /\ \/ /\ sessions[session_id].status = "in_progress"
              /\ response' = Resp("start", 200, FALSE)
              /\ UNCHANGED <<sessions, now>>
           \/ /\ sessions[session_id].status \notin {"in_progress", "created"}
              /\ response' = Resp("start", 400, FALSE)
              /\ UNCHANGED <<sessions, now>>
           \/ /\ sessions[session_id].status = "created"
              /\ Tick
              /\ sessions' = [sessions EXCEPT
                   ![session_id].status = "in_progress",
                   ![session_id].started_at = IF @ = NoTime THEN now' ELSE @]
              /\ response' = Resp("start", 200, TRUE)
  /\ UNCHANGED <<questions, usage, progress, issued, freshOf, pending>>

\* ------------------------------------------------ submit_answer
\* POST /sessions/{session_id}/answer -> SessionManager.submit_answer
\* faulty variant: the usage row is looked up by question_id alone, in any session
submit_answer_any_session(user_id, session_id, question_id, user_answer) ==
  /\ Live
  /\ \/ /\ question_id \notin QuestionIds
        /\ response' = [Resp("answer", 200, FALSE) EXCEPT !.error = "question_not_found"]
        /\ UNCHANGED <<usage, now>>
     \/ /\ question_id \in QuestionIds
        /\ LET is_correct == (user_answer = Bank[question_id].correct_answer)
               match == {i \in 1..Len(usage) : usage[i].question_id = question_id}
           IN /\ \/ /\ match = {}
                    /\ UNCHANGED <<usage, now>>
                 \/ /\ Tick
                    /\ \E i \in match :
                         usage' = [usage EXCEPT ![i].user_answered = TRUE,
                                                ![i].user_answer = user_answer,
                                                ![i].was_correct = IF is_correct THEN "True"
                                                                   ELSE "False"]
              /\ response' = [Resp("answer", 200, match # {}) EXCEPT
                                !.is_correct = is_correct]
  /\ UNCHANGED <<questions, sessions, progress, issued, freshOf, pending>>

submit_answer(user_id, session_id, question_id, user_answer) ==
  /\ Live
  /\ \/ /\ question_id \notin QuestionIds
        /\ response' = [Resp("answer", 200, FALSE) EXCEPT !.error = "question_not_found"]
        /\ UNCHANGED <<usage, now>>
     \/ /\ question_id \in QuestionIds
        /\ LET is_correct == (user_answer = Bank[question_id].correct_answer)
               match == {i \in UsageOfSession(usage, session_id) :
                           usage[i].question_id = question_id}
           IN /\ \/ /\ match = {}
                    /\ UNCHANGED <<usage, now>>
                 \/ /\ Tick
                    /\ \E i \in match :
                         usage' = [usage EXCEPT ![i].user_answered = TRUE,
                                                ![i].user_answer = user_answer,
                                                ![i].was_correct = IF is_correct THEN "True"
                                                                   ELSE "False"]
              /\ response' = [Resp("answer", 200, match # {}) EXCEPT
                                !.is_correct = is_correct]
  /\ UNCHANGED <<questions, sessions, progress, issued, freshOf, pending>>

\* ------------------------------------------------ submit (complete)
\* the correct_rate recomputation at the end of complete_session
\* faulty variant: only the rows of the completed session are counted
RateAfterSessionOnly(Q, U, session_id) ==
  LET rows == {j \in UsageOfSession(U, session_id) : U[j].user_answered}
      unique_question_ids == {U[i].question_id : i \in rows}
      total(q) == Cardinality({i \in rows : U[i].question_id = q})
      correct(q) == Cardinality({i \in rows : /\ U[i].question_id = q
                                              /\ U[i].was_correct = "True"})
  IN [q \in QuestionIds |->
        IF q \in unique_question_ids /\ total(q) > 0
          THEN [Q[q] EXCEPT !.correct_rate = [num |-> correct(q), den |-> total(q)]]
          ELSE Q[q]]

RateAfter(Q, U, session_id) ==
  LET unique_question_ids == {U[i].question_id :
                                i \in {j \in UsageOfSession(U, session_id) : U[j].user_answered}}
      total(q) == Cardinality({i \in 1..Len(U) : U[i].question_id = q /\ U[i].user_answered})
      correct(q) == Cardinality({i \in 1..Len(U) : /\ U[i].question_id = q
                                                   /\ U[i].user_answered
                                                   /\ U[i].was_correct = "True"})
  IN [q \in QuestionIds |->
        IF q \in unique_question_ids /\ total(q) > 0
          THEN [Q[q] EXCEPT !.correct_rate = [num |-> correct(q), den |-> total(q)]]
          ELSE Q[q]]

\* SessionManager.complete_session: the session row it writes
\* faulty variant: every row that is not correct counts as incorrect, answered or not
complete_session_unanswered_wrong(S, U, session_id, t) ==
  LET usage_records == UsageOfSession(U, session_id)
      correct_count == Cardinality({i \in usage_records : U[i].was_correct = "True"})
      incorrect_count == Cardinality({i \in usage_records : U[i].was_correct # "True"})
      left == S[session_id].total_questions - (correct_count + incorrect_count)
      unanswered_count == IF left < 0 THEN 0 ELSE left
  IN [S EXCEPT ![session_id].status = "completed",
               ![session_id].completed_at = t,
               ![session_id].correct_count = correct_count,
               ![session_id].incorrect_count = incorrect_count,
               ![session_id].unanswered_count = unanswered_count,
               ![session_id].score =
                  IF S[session_id].total_questions > 0
                    THEN [num |-> correct_count * 100, den |-> S[session_id].total_questions]
                    ELSE [num |-> 0, den |-> 1]]

complete_session(S, U, session_id, t) ==
  LET usage_records == UsageOfSession(U, session_id)
      correct_count == Cardinality({i \in usage_records : U[i].was_correct = "True"})
      incorrect_count == Cardinality({i \in usage_records :
                                        U[i].user_answered /\ U[i].was_correct # "True"})
      left == S[session_id].total_questions - (correct_count + incorrect_count)
      unanswered_count == IF left < 0 THEN 0 ELSE left
  IN [S EXCEPT ![session_id].status = "completed",
               ![session_id].completed_at = t,
               ![session_id].correct_count = correct_count,
               ![session_id].incorrect_count = incorrect_count,
               ![session_id].unanswered_count = unanswered_count,
               ![session_id].score =
                  IF S[session_id].total_questions > 0
                    THEN [num |-> correct_count * 100, den |-> S[session_id].total_questions]
                    ELSE [num |-> 0, den |-> 1]]

\* calculate_score: the 'total' and 'correct' entries of its result
calculate_score(user_answers, questions_data) ==
  LET MaxOf(f) == CHOOSE m \in {f[a] : a \in DOMAIN f} : \A a \in DOMAIN f : f[a] <= m
      hit(q_data) ==
        IF DOMAIN q_data.answer_scores # {}
          THEN /\ q_data.question_id \in DOMAIN user_answers
               /\ LET user_answer == user_answers[q_data.question_id]
                      points == IF user_answer \in DOMAIN q_data.answer_scores
                                  THEN q_data.answer_scores[user_answer] ELSE 0
                  IN points = MaxOf(q_data.answer_scores)
          ELSE /\ q_data.question_id \in DOMAIN user_answers
               /\ user_answers[q_data.question_id] = q_data.correct_answer
  IN [total |-> Len(questions_data),
      correct |-> Cardinality({i \in 1..Len(questions_data) : hit(questions_data[i])})]

\* update_user_progress: the totals
update_user_progress(P, user_id, session_results) ==
  [P EXCEPT ![user_id].total_sessions = @ + 1,
            ![user_id].total_questions = @ + session_results.total,
            ![user_id].total_correct = @ + session_results.correct]

\* faulty variant: the status check is missing
NeverCompleted(status) == FALSE

\* the status check of submit_session (lines 947-951)
AlreadyCompleted(status) == status \in {"selesai", "completed"}

\* POST /sessions/{session_id}/submit
submit_session(user_id, session_id, answers) ==
  /\ Live
  /\ \/ /\ ~Owned(sessions, session_id, user_id)
        /\ response' = Resp("submit", 404, FALSE)
        /\ UNCHANGED <<questions, sessions, progress, now>>
     \/ /\ Owned(sessions, session_id, user_id)
        /\ \/ /\ AlreadyCompleted(sessions[session_id].status)
              /\ response' = Resp("submit", 400, FALSE)
              /\ UNCHANGED <<questions, sessions, progress, now>>
           \/ /\ ~AlreadyCompleted(sessions[session_id].status)
              /\ Tick
              /\ sessions' = complete_session(sessions, usage, session_id, now')
              /\ questions' = RateAfter(questions, usage, session_id)
              /\ progress' = update_user_progress(progress, user_id,
                               calculate_score(answers, sessions[session_id].questions_data))
              /\ response' = Resp("submit", 200, TRUE)
  /\ UNCHANGED <<usage, issued, freshOf, pending>>

\* the answers maps a submit request carries: none, or one answer per question of the
\* session
Submissions(session_id) ==
  IF session_id \in DOMAIN sessions
    THEN {NoScores} \cup
         [{sessions[session_id].questions_data[i].question_id :
             i \in 1..Len(sessions[session_id].questions_data)} -> Answers]
    ELSE {NoScores}

\* ------------------------------------------------ delete
\* ON DELETE CASCADE of question_usage.session_id: the rows that survive
CascadeDelete(U, session_id) == SelectSeq(U, LAMBDA row : row.session_id # session_id)

\* DELETE /sessions/{session_id}
delete_session(user_id, session_id) ==
  /\ Live
  /\ \/ /\ ~Owned(sessions, session_id, user_id)
        /\ response' = Resp("delete", 404, FALSE)
        /\ UNCHANGED <<sessions, usage, now>>
     \/ /\ Owned(sessions, session_id, user_id)
        /\ Tick
        /\ sessions' = [s \in DOMAIN sessions \ {session_id} |-> sessions[s]]
        /\ usage' = CascadeDelete(usage, session_id)
        /\ response' = Resp("delete", 200, TRUE)
  /\ UNCHANGED <<questions, progress, issued, freshOf, pending>>

\* ------------------------------------------------------------------------
\* ------------------------------------------------ feedback quality tracker
\* thresholds of FeedbackQualityTracker.__init__, rates in percent
min_usage_for_evaluation == 10
min_correct_rate == 30
max_correct_rate == 95
\* the quality floor of evaluate_question_performance, in hundredths
QualityFloor == 60

\* retirement reasons a caller passes to retire_question
Reasons == {"too_difficult"}

\* update_question_statistics: the questions table it leaves
update_question_statistics(Q, U, question_id) ==
  LET usage_records == {i \in 1..Len(U) : /\ U[i].question_id = question_id
                                          /\ U[i].user_answered}
      total_answered == Cardinality(usage_records)
      total_correct == Cardinality({i \in usage_records : U[i].was_correct = "True"})
  IN IF usage_records = {}
       THEN Q
       ELSE [Q EXCEPT ![question_id].usage_count = total_answered,
                      ![question_id].correct_rate =
                         [num |-> total_correct, den |-> total_answered]]

\* the evaluation dict of evaluate_question_performance, built from the re-read row
Evaluation(Q, question_id) ==
  LET usage_count == Q[question_id].usage_count
      correct_rate == Q[question_id].correct_rate
      quality_score == Q[question_id].quality_score
      base == [question_id |-> question_id, usage_count |-> usage_count,
               correct_rate |-> correct_rate, quality_score |-> quality_score,
               should_retire |-> FALSE, reasons |-> {}, status |-> None]
  IN IF usage_count < min_usage_for_evaluation
       THEN [base EXCEPT !.status = "insufficient_data", !.reasons = {"need_more_uses"}]
     ELSE IF correct_rate.num * 100 < min_correct_rate * correct_rate.den
       THEN [base EXCEPT !.should_retire = TRUE, !.reasons = {"too_difficult"},
                         !.status = "too_difficult"]
     ELSE IF correct_rate.num * 100 > max_correct_rate * correct_rate.den
       THEN [base EXCEPT !.should_retire = TRUE, !.reasons = {"too_easy"},
                         !.status = "too_easy"]
     ELSE IF quality_score < QualityFloor
       THEN [base EXCEPT !.should_retire = TRUE, !.reasons = {"low_quality"},
                         !.status = "low_quality"]
     ELSE [base EXCEPT !.status = "performing_well"]

\* FeedbackQualityTracker.evaluate_question_performance
evaluate_question_performance(question_id) ==
  /\ \/ /\ question_id \notin QuestionIds
        /\ response' = [op |-> "evaluate", error |-> "Question not found"]
        /\ UNCHANGED questions
     \/ /\ question_id \in QuestionIds
        /\ questions' = update_question_statistics(questions, usage, question_id)
        /\ response' = [op |-> "evaluate", error |-> None,
                        evaluation |-> Evaluation(questions', question_id)]
  /\ UNCHANGED <<usage, sessions, progress, issued, now, freshOf, pending>>

\* FeedbackQualityTracker.get_questions_to_retire: every question whose stored
\* usage_count passes the filter is evaluated, which refreshes its statistics
get_questions_to_retire ==
  LET candidates == {q \in QuestionIds : questions[q].usage_count >= min_usage_for_evaluation}
  IN /\ questions' = [q \in QuestionIds |->
                        IF q \in candidates
                          THEN update_question_statistics(questions, usage, q)[q]
                          ELSE questions[q]]
     /\ response' = [op |-> "to_retire",
                     to_retire |-> {e \in {Evaluation(questions', q) : q \in candidates} :
                                      e.should_retire}]
     /\ UNCHANGED <<usage, sessions, progress, issued, now, freshOf, pending>>

\* FeedbackQualityTracker.retire_question
retire_question(question_id, reason) ==
  /\ IF question_id \in QuestionIds
       THEN questions' = [questions EXCEPT ![question_id].explanation = @ \cup {reason},
                                           ![question_id].quality_score = 0]
       ELSE UNCHANGED questions
  /\ response' = [op |-> "retire", question_id |-> question_id]
  /\ UNCHANGED <<usage, sessions, progress, issued, now, freshOf, pending>>

\* the column defaults of a Question row (models.py); quality_score in hundredths,
\* explanation as the set of retirement notes appended to it
NewQuestion ==
  [is_used |-> FALSE, usage_count |-> 0, last_used_at |-> NoTime,
   correct_rate |-> [num |-> 0, den |-> 1], quality_score |-> 100, is_active |-> TRUE,
   explanation |-> {}]

Init ==
  /\ questions = [q \in QuestionIds |-> NewQuestion]
  /\ usage = << >>
  /\ sessions = << >>
  /\ progress = [u \in Users |-> [total_sessions |-> 0, total_questions |-> 0,
                                  total_correct |-> 0]]
  /\ issued = 0
  /\ now = 0
  /\ freshOf = << >>
  /\ pending = [p \in Procs |-> Idle]
  /\ response = NoResp

SessionIds == 1..MaxSessions
Subtypes == {None, "verbal"}

\* requests served one at a time
Next ==
  \/ \E u \in Users, s \in {"tiu", "tkp"}, c \in 1..MaxCount, st \in Subtypes :
       CreateNewSession(u, "cpns", s, c, st)
  \/ \E u \in Users, o \in SessionIds : CreateReviewSession(u, o)
  \/ \E u \in Users : CreateExamSession(u, "cpns")
  \/ \E u \in Users, s \in SessionIds : start_session(u, s)
  \/ \E u \in Users, s \in SessionIds, q \in QuestionIds \cup {"q0"}, a \in Answers :
       submit_answer(u, s, q, a)
  \/ \E u \in Users, s \in SessionIds : \E a \in Submissions(s) : submit_session(u, s, a)

Spec == Init /\ [][Next]_vars

\* create requests of one user that overlap
NextConc ==
  \/ \E p \in Procs, u \in Users, c \in 1..MaxCount, st \in Subtypes :
       BeginCreate(p, u, "cpns", "tiu", c, st)
  \/ \E p \in Procs : CommitCreate(p)

SpecConc == Init /\ [][NextConc]_vars

\* requests served one at a time, the delete endpoint among them
NextDelete ==
  \/ \E u \in Users, c \in 1..MaxCount, st \in Subtypes :
       CreateNewSession(u, "cpns", "tiu", c, st)
  \/ \E u \in Users, s \in SessionIds : delete_session(u, s)

SpecDelete == Init /\ [][NextDelete]_vars

\* the usage history of q1 the quality tracker is run on: rows 1..assigned come from
\* practice sessions (each marking raised usage_count), later rows from review
\* sessions; the first answered rows are answered, the first correct of them correctly
TrackerRows(assigned, answered, correct) ==
  LET n == IF assigned > answered THEN assigned ELSE answered
  IN [k \in 1..n |->
        [NewUsage("q1", "u1", k, 1, IF k <= assigned THEN None ELSE "False") EXCEPT
           !.user_answered = (k <= answered),
           !.user_answer = IF k > answered THEN None ELSE IF k <= correct THEN "A" ELSE "B",
           !.was_correct = IF k > answered THEN @ ELSE IF k <= correct THEN "True" ELSE "False"]]

\* the sessions those rows belong to
TrackerSessions(assigned, answered) ==
  LET n == IF assigned > answered THEN assigned ELSE answered
  IN [k \in 1..n |->
        NewSession("u1", "cpns", "tiu", None, IF k <= assigned THEN "practice" ELSE "review",
                   1, <<"q1">>, k <= assigned, 1, 1)]

\* the tracker is started on a database in which q1 has been assigned and answered
\* some number of times; its stored correct_rate is the default or what
\* complete_session last wrote
InitTracker ==
  \E assigned \in {1, MaxAssigned}, answered \in 0..MaxAnswered, quality \in {50, 100} :
    \E correct \in 0..answered :
      \E rate \in {[num |-> 0, den |-> 1]} \cup
                  (IF answered > 0 THEN {[num |-> correct, den |-> answered]} ELSE {}) :
        /\ questions = [q \in QuestionIds |->
                          IF q = "q1"
                            THEN [NewQuestion EXCEPT !.is_used = TRUE,
                                                     !.usage_count = assigned,
                                                     !.last_used_at = 1,
                                                     !.correct_rate = rate,
                                                     !.quality_score = quality]
                            ELSE NewQuestion]
        /\ usage = TrackerRows(assigned, answered, correct)
        /\ sessions = TrackerSessions(assigned, answered)
        /\ progress = [u \in Users |-> [total_sessions |-> 0, total_questions |-> 0,
                                        total_correct |-> 0]]
        /\ issued = Len(usage)
        /\ now = 1
        /\ freshOf = [k \in 1..Len(usage) |-> IF k = 1 THEN {"q1"} ELSE {}]
        /\ pending = [p \in Procs |-> Idle]
        /\ response = NoResp

\* the tracker's operations, run one at a time
NextTracker ==
  \/ \E q \in {"q1", "q0"} : evaluate_question_performance(q)
  \/ get_questions_to_retire
  \/ \E q \in {"q1", "q0"}, reason \in Reasons : retire_question(q, reason)

SpecTracker == InitTracker /\ [][NextTracker]_vars

\* sessions are answered and completed on top of a short answer history of q1
InitHistory == InitTracker /\ Len(usage) <= MaxHistory

NextHistory ==
  \/ \E u \in Users, s \in 1..MaxHistory, a \in Answers : submit_answer(u, s, "q1", a)
  \/ \E u \in Users, s \in 1..MaxHistory :
       \E a \in Submissions(s) : submit_session(u, s, a)

SpecHistory == InitHistory /\ [][NextHistory]_vars

\* ------------------------------------------------------------------------
\* Properties

Subjects == {"tiu", "twk", "tkp"}

SameUser(s1, s2) == sessions[s1].user_id = sessions[s2].user_id

SessionQuestions(s) ==
  {sessions[s].questions_data[i].question_id : i \in 1..Len(sessions[s].questions_data)}

\* user u has a usage row for q written before time t
ShownBefore(u, q, t) ==
  \E i \in 1..Len(usage) :
     usage[i].user_id = u /\ usage[i].question_id = q /\ usage[i].used_at < t

\* C1: with requests served one at a time and nothing deleted, no question that
\* select_new_questions returns for a user has a usage row of that user, whatever
\* request is served next; so no question is delivered by tiers 1-2 to two sessions of one user, and a
\* question delivered by tiers 1-2 had no row of the owner before its session
NeverRepeatFresh ==
  /\ Live =>
      \A u \in Users, s \in Subjects, c \in 1..MaxCount, st \in Subtypes :
       \A dist \in {NoDist, [d \in {"hard"} |-> c]} :
          \A r \in select_new_questions(questions, usage, u, "cpns", s, c, dist, st) :
             \A i \in 1..Len(usage) :
                usage[i].user_id = u => usage[i].question_id \notin r.questions
  /\ \A s1 \in DOMAIN sessions, s2 \in DOMAIN sessions :
       (s1 # s2 /\ SameUser(s1, s2)) => freshOf[s1] \cap freshOf[s2] = {}
  /\ \A s \in DOMAIN sessions : \A q \in freshOf[s] :
       ~ShownBefore(sessions[s].user_id, q, sessions[s].created_at)

\* C1: one user holds two sessions and tiers 1-2 delivered questions to both
TwoFreshSessions ==
  \E s1 \in DOMAIN sessions, s2 \in DOMAIN sessions :
     s1 # s2 /\ SameUser(s1, s2) /\ freshOf[s1] # {} /\ freshOf[s2] # {}

\* C2: when create requests of one user overlap, no question has two usage rows of
\* that user in two sessions that both received it from tiers 1-2
OverlappingCreatesShareNoFresh ==
  \A i \in 1..Len(usage), j \in 1..Len(usage) :
     ( /\ usage[i].user_id = usage[j].user_id
       /\ usage[i].question_id = usage[j].question_id
       /\ usage[i].question_id \in freshOf[usage[i].session_id]
       /\ usage[j].question_id \in freshOf[usage[j].session_id] )
     => usage[i].session_id = usage[j].session_id

\* C3: a practice session holds a question its owner was shown before only if it
\* holds every question of its category, subject and subtype the owner was never shown
RecycleOnlyWhenFreshExhausted ==
  \A s \in DOMAIN sessions :
     sessions[s].mode = "practice" =>
       LET u == sessions[s].user_id
           t == sessions[s].created_at
           matching == {q \in QuestionIds :
                          /\ Bank[q].test_category = sessions[s].test_category
                          /\ Bank[q].subject = sessions[s].subject
                          /\ (sessions[s].subtype # None =>
                                Bank[q].subtype = sessions[s].subtype)}
       IN (\E q \in SessionQuestions(s) : ShownBefore(u, q, t))
            => \A q \in matching : ~ShownBefore(u, q, t) => q \in SessionQuestions(s)

\* C4: every session has exactly one usage row per question of its frozen list, each
\* carrying the owner's user id, and no row for another question; every usage row
\* belongs to a persisted session
SessionRowsMatchFrozenList ==
  /\ \A s \in DOMAIN sessions :
       /\ \A q \in SessionQuestions(s) :
            Cardinality({i \in UsageOfSession(usage, s) : usage[i].question_id = q}) = 1
       /\ \A i \in UsageOfSession(usage, s) :
            /\ usage[i].user_id = sessions[s].user_id
            /\ usage[i].question_id \in SessionQuestions(s)
  /\ \A i \in 1..Len(usage) : usage[i].session_id \in DOMAIN sessions

\* C4: a practice or exam session and a review session exist and a row was answered
ReviewedAndAnswered ==
  /\ \E s \in DOMAIN sessions : sessions[s].mode = "review"
  /\ \E i \in 1..Len(usage) : usage[i].user_answered

\* C5: a create request that fails with insufficient_questions reports available and
\* needed counts and leaves sessions, usage rows and question statistics as they
\* were; every practice session that is persisted has at least one question
InsufficientPersistsNothing ==
  [][ /\ \A u \in Users, s \in {"tiu", "tkp"}, c \in 1..MaxCount, st \in Subtypes :
           ( /\ response'.op = "create"
             /\ \A plan \in TierPlans(questions, usage, u, "cpns", s, c, st) :
                   plan.all = {}
             /\ CreateNewSession(u, "cpns", s, c, st) )
           => /\ response'.code = 400
              /\ response'.error = "insufficient_questions"
              /\ response'.needed = c
              /\ response'.available < c
              /\ sessions' = sessions
              /\ usage' = usage
              /\ questions' = questions
      /\ \A s \in DOMAIN sessions' \ DOMAIN sessions :
           sessions'[s].mode = "practice" => Len(sessions'[s].questions_data) >= 1
    ]_vars

\* C5: a create request has just failed with insufficient_questions
CreateFailed ==
  response.op = "create" /\ response.error = "insufficient_questions"

\* C6: the correct_count stored in a completed session equals the number of its usage
\* rows with was_correct true
CompletedCountMatchesRows ==
  \A s \in DOMAIN sessions :
     sessions[s].status = "completed" =>
       sessions[s].correct_count =
         Cardinality({i \in UsageOfSession(usage, s) : usage[i].was_correct = "True"})

\* C7: a submit request of the owner for a completed session is rejected and leaves
\* the session rows and the user's progress as they were; total_sessions grows only
\* by the sessions a step completes
SubmitOnce ==
  [][ /\ \A u \in Users, s \in DOMAIN sessions : \A a \in Submissions(s) :
           ( /\ response'.op = "submit"
             /\ Owned(sessions, s, u)
             /\ sessions[s].status = "completed"
             /\ submit_session(u, s, a) )
           => /\ response'.code = 400
              /\ sessions' = sessions
              /\ progress' = progress
      /\ \A u \in Users :
           progress'[u].total_sessions = progress[u].total_sessions +
             Cardinality({s \in DOMAIN sessions :
                            /\ sessions[s].user_id = u
                            /\ sessions[s].status # "completed"
                            /\ sessions'[s].status = "completed"})
    ]_vars

\* C7: a submit request for a completed session has just been rejected
SubmitRejected ==
  /\ response.op = "submit" /\ response.code = 400
  /\ \E s \in DOMAIN sessions : sessions[s].status = "completed"

\* C8: start by the owner moves a created session to in_progress and sets started_at;
\* start on an in_progress session returns success and changes nothing; a started_at
\* that is set is never changed
StartIdempotent ==
  [][ /\ \A u \in Users, s \in DOMAIN sessions :
           (response'.op = "start" /\ Owned(sessions, s, u) /\ start_session(u, s)) =>
             /\ sessions[s].status = "created" =>
                  /\ response'.code = 200
                  /\ sessions'[s].status = "in_progress"
                  /\ sessions'[s].started_at = now'
                  /\ sessions'[s].started_at # NoTime
             /\ sessions[s].status = "in_progress" =>
                  /\ response'.code = 200
                  /\ sessions' = sessions
      /\ \A s \in DOMAIN sessions :
           sessions[s].started_at # NoTime =>
             sessions'[s].started_at = sessions[s].started_at
    ]_vars

\* C8: start has just succeeded without writing, on a session started earlier
StartedTwice ==
  /\ response.op = "start" /\ response.code = 200 /\ ~response.wrote
  /\ \E s \in DOMAIN sessions :
       /\ sessions[s].status = "in_progress"
       /\ sessions[s].started_at # NoTime
       /\ sessions[s].started_at < now

\* C9: every completed session has been started
CompletedWasStarted ==
  \A s \in DOMAIN sessions :
     sessions[s].status = "completed" => sessions[s].started_at # NoTime

\* C10: the usage rows of a session that is still created are unanswered
CreatedStaysUnanswered ==
  \A s \in DOMAIN sessions :
     sessions[s].status = "created" =>
       \A i \in UsageOfSession(usage, s) : ~usage[i].user_answered

\* the usage rows of session s for question q
RowsFor(s, q) == {i \in UsageOfSession(usage, s) : usage[i].question_id = q}

\* C11: submit_answer for an existing question that has no usage row in the session
\* reports an error to the caller and leaves the usage table as it was
AnswerWithoutRowIsError ==
  [][ \A u \in Users, s \in DOMAIN sessions, q \in QuestionIds, a \in Answers :
        ( /\ response'.op = "answer"
          /\ sessions[s].user_id = u
          /\ RowsFor(s, q) = {}
          /\ submit_answer(u, s, q, a) )
        => /\ response'.error # None
           /\ usage' = usage
    ]_vars

\* C12: a request that addresses a session of another user is answered with
\* not-found, as for a session that does not exist, and changes neither the sessions
\* nor the usage rows
NonOwnerSeesNotFound ==
  [][ \A u \in Users, s \in DOMAIN sessions :
        ( /\ sessions[s].user_id # u
          /\ \/ /\ response'.op = "start"
                /\ start_session(u, s)
             \/ /\ response'.op = "answer"
                /\ \E q \in QuestionIds, a \in Answers : submit_answer(u, s, q, a)
             \/ /\ response'.op = "submit"
                /\ \E a \in Submissions(s) : submit_session(u, s, a)
             \/ /\ response'.op = "delete"
                /\ delete_session(u, s)
             \/ /\ response'.op = "create_review"
                /\ CreateReviewSession(u, s) )
          => /\ response'.code = 404
             /\ sessions' = sessions
             /\ usage' = usage
    ]_vars

\* C13: completing a session of n questions stores correct_count = its rows with
\* was_correct true, incorrect_count = its rows answered but not correct,
\* unanswered_count = max(0, n - correct - incorrect) and score = 100 * correct / n;
\* in every completed session the three counts add up to total_questions
CompleteStoresRowCounts ==
  [][ /\ \A u \in Users, s \in DOMAIN sessions :
           ( /\ response'.op = "submit"
             /\ response'.code = 200
             /\ \E a \in Submissions(s) : submit_session(u, s, a) )
           => LET rows == {i \in 1..Len(usage) : usage[i].session_id = s}
                  c == Cardinality({i \in rows : usage[i].was_correct = "True"})
                  w == Cardinality({i \in rows : /\ usage[i].user_answered
                                                 /\ usage[i].was_correct # "True"})
                  n == sessions[s].total_questions
              IN /\ sessions'[s].status = "completed"
                 /\ sessions'[s].correct_count = c
                 /\ sessions'[s].incorrect_count = w
                 /\ sessions'[s].unanswered_count = IF n - c - w > 0 THEN n - c - w ELSE 0
                 /\ n > 0 => sessions'[s].score.num * n = 100 * c * sessions'[s].score.den
      /\ \A s \in DOMAIN sessions' :
           sessions'[s].status = "completed"
           => sessions'[s].correct_count + sessions'[s].incorrect_count
                + sessions'[s].unanswered_count = sessions'[s].total_questions
    ]_vars

\* a session of two questions completed with one correct answer and one question
\* left unanswered
CompletedWithCounts ==
  /\ response.op = "submit"
  /\ response.code = 200
  /\ \E s \in DOMAIN sessions :
       /\ sessions[s].status = "completed"
       /\ sessions[s].total_questions = 2
       /\ sessions[s].correct_count = 1
       /\ sessions[s].unanswered_count = 1

\* the highest score an option of question q carries
MaxScore(q) ==
  CHOOSE m \in {Bank[q].answer_scores[a] : a \in Answers} :
    \A a \in Answers : Bank[q].answer_scores[a] <= m

\* C14: for a question scored by an answer_scores map, submit_answer reports
\* is_correct = true and records was_correct = true exactly when the submitted option
\* carries the maximum score of the question
ScoreMapCorrectIsMax ==
  [][ \A u \in Users, s \in DOMAIN sessions, q \in QuestionIds, a \in Answers :
        ( /\ response'.op = "answer"
          /\ Bank[q].correct_answer = None
          /\ DOMAIN Bank[q].answer_scores # {}
          /\ sessions[s].user_id = u
          /\ RowsFor(s, q) # {}
          /\ submit_answer(u, s, q, a) )
        => LET best == (Bank[q].answer_scores[a] = MaxScore(q))
           IN /\ response'.is_correct = best
              /\ \E i \in RowsFor(s, q) :
                   /\ usage'[i].user_answer = a
                   /\ usage'[i].was_correct = IF best THEN "True" ELSE "False"
    ]_vars

\* the question ids of a session's frozen list, in list order
FrozenOrder(S, s) == [k \in 1..Len(S[s].questions_data) |-> S[s].questions_data[k].question_id]

\* C15: create_review_session on an owned session replays exactly the original
\* session's question ids in the order of the original's frozen question list
ReviewKeepsOriginalOrder ==
  [][ \A u \in Users, o \in DOMAIN sessions :
        ( /\ response'.op = "create_review"
          /\ response'.code = 200
          /\ CreateReviewSession(u, o) )
        => FrozenOrder(sessions', issued') = FrozenOrder(sessions, o)
    ]_vars

\* C16: starting a review session, answering in it and completing it leave every
\* other session record (status, score, counts) and the usage rows of every other
\* session (answers and correctness) unchanged
ReviewLeavesOriginalAlone ==
  [][ \A u \in Users, r \in DOMAIN sessions :
        ( /\ sessions[r].mode = "review"
          /\ \/ /\ response'.op = "start"
                /\ start_session(u, r)
             \/ /\ response'.op = "answer"
                /\ \E q \in QuestionIds, a \in Answers : submit_answer(u, r, q, a)
             \/ /\ response'.op = "submit"
                /\ \E a \in Submissions(r) : submit_session(u, r, a) )
        => /\ \A o \in DOMAIN sessions \ {r} :
                /\ o \in DOMAIN sessions'
                /\ sessions'[o] = sessions[o]
           /\ Len(usage') = Len(usage)
           /\ \A i \in 1..Len(usage) :
                usage[i].session_id # r => usage'[i] = usage[i]
    ]_vars

\* a question answered in a review session while its row in the original session is
\* still unanswered
ReviewAnsweredOriginalNot ==
  /\ response.op = "answer"
  /\ \E r \in DOMAIN sessions :
       /\ sessions[r].mode = "review"
       /\ \E i, j \in 1..Len(usage) :
            /\ usage[i].session_id = r
            /\ usage[i].user_answered
            /\ usage[j].session_id # r
            /\ usage[j].question_id = usage[i].question_id
            /\ ~usage[j].user_answered

\* C17: create_review_session appends exactly one unanswered usage row per replayed
\* question, scoped to the new session id, and leaves every question's usage_count,
\* is_used and last_used_at and the user's set of ever-seen question ids unchanged
ReviewAddsOneRowPerQuestion ==
  [][ \A u \in Users, o \in DOMAIN sessions :
        ( /\ response'.op = "create_review"
          /\ response'.code = 200
          /\ CreateReviewSession(u, o) )
        => LET added == SubSeq(usage', Len(usage) + 1, Len(usage'))
               replayed == Range(FrozenOrder(sessions, o))
           IN /\ SubSeq(usage', 1, Len(usage)) = usage
              /\ \A k \in 1..Len(added) :
                   /\ added[k].session_id = issued'
                   /\ added[k].session_id \notin DOMAIN sessions
                   /\ added[k].user_id = u
                   /\ added[k].question_id \in replayed
                   /\ ~added[k].user_answered
                   /\ added[k].user_answer = None
              /\ \A q \in replayed :
                   Cardinality({k \in 1..Len(added) : added[k].question_id = q}) = 1
              /\ questions' = questions
              /\ used_questions(usage', u) = used_questions(usage, u)
    ]_vars

\* a review session replaying two questions has just been created
ReviewOfTwoCreated ==
  /\ response.op = "create_review"
  /\ response.code = 200
  /\ sessions[issued].mode = "review"
  /\ sessions[issued].total_questions = 2

\* C18: no operation, the delete-session endpoint included, removes a usage row: the
\* set of question ids a user has been shown only grows
UsageRowsNeverRemoved ==
  [][ /\ Len(usage') >= Len(usage)
      /\ \A i \in 1..Len(usage) : /\ usage'[i].question_id = usage[i].question_id
                                   /\ usage'[i].user_id = usage[i].user_id
                                   /\ usage'[i].session_id = usage[i].session_id
      /\ \A u \in Users : used_questions(usage, u) \subseteq used_questions(usage', u)
    ]_vars

\* C19: when several session creations of different users mark the same question
\* while they overlap, the question's usage_count grows by exactly the number of
\* markings, so it equals the number of usage rows the markings wrote
UsageCountCountsEveryMarking ==
  \A q \in QuestionIds :
    LET rows == {i \in 1..Len(usage) : usage[i].question_id = q}
    IN (\A i, j \in rows : i # j => usage[i].user_id # usage[j].user_id)
       => questions[q].usage_count = Cardinality(rows)

\* the sulit questions of a subject that the user has never been shown
FreshHardest(U, user_id, test_category, subject, subtype) ==
  {q \in QuestionIds : /\ Bank[q].test_category = test_category
                       /\ Bank[q].subject = subject
                       /\ Bank[q].difficulty = "sulit"
                       /\ (subtype # None => Bank[q].subtype = subtype)
                       /\ q \notin used_questions(U, user_id)}

\* C20: when the subject holds at least count never-shown sulit questions, the
\* session that create_new_session persists is a full tier-1 delivery: count
\* questions, all returned by the tier-1 selection
TierOneDeliversHardest ==
  [][ \A u \in Users, c \in 1..MaxCount, st \in Subtypes :
        ( /\ response'.op = "create"
          /\ response'.code = 200
          /\ Cardinality(FreshHardest(usage, u, "cpns", "tiu", st)) >= c
          /\ CreateNewSession(u, "cpns", "tiu", c, st) )
        => \E r1 \in Tier1(questions, usage, u, "cpns", "tiu", c, st) :
             /\ Cardinality(r1.questions) = c
             /\ r1.questions = Range(FrozenOrder(sessions', issued'))
    ]_vars

\* the completed sessions of a user
CompletedOf(user_id) ==
  {s \in DOMAIN sessions : /\ sessions[s].user_id = user_id
                           /\ sessions[s].status = "completed"}

\* the sum of f[s] over the sessions in D
RECURSIVE SumOver(_, _)
SumOver(f, D) ==
  IF D = {} THEN 0
  ELSE LET s == CHOOSE x \in D : TRUE IN f[s] + SumOver(f, D \ {s})

\* C21: a user's progress can be recomputed from session history: total_sessions is
\* the number of the user's completed sessions, total_questions the sum of their
\* total_questions and total_correct the sum of their stored correct_count
ProgressMatchesHistory ==
  \A u \in Users :
    LET done == CompletedOf(u)
    IN /\ progress[u].total_sessions = Cardinality(done)
       /\ progress[u].total_questions =
            SumOver([s \in done |-> sessions[s].total_questions], done)
       /\ progress[u].total_correct =
            SumOver([s \in done |-> sessions[s].correct_count], done)

\* the answered usage rows of a question, over all sessions of all users
AnsweredOf(U, q) == {i \in 1..Len(U) : U[i].question_id = q /\ U[i].user_answered}
CorrectOf(U, q) == {i \in AnsweredOf(U, q) : U[i].was_correct = "True"}

\* an evaluation of question q has just been returned
Evaluated(q) ==
  /\ response'.op = "evaluate"
  /\ response'.error = None
  /\ response'.evaluation.question_id = q
  /\ evaluate_question_performance(q)

\* C22: a question with fewer than 10 answered attempts, zero included and whatever
\* its number of assignments, is evaluated as insufficient_data with
\* should_retire = false
FewAnswersInsufficientData ==
  [][ \A q \in QuestionIds :
        (Evaluated(q) /\ Cardinality(AnsweredOf(usage, q)) < min_usage_for_evaluation)
        => /\ response'.evaluation.status = "insufficient_data"
           /\ ~response'.evaluation.should_retire
    ]_vars

\* C23: a question with 20 answered attempts of which 19 are correct is evaluated as
\* too_easy with should_retire = true
NineteenOfTwentyTooEasy ==
  [][ \A q \in QuestionIds :
        ( /\ Evaluated(q)
          /\ Cardinality(AnsweredOf(usage, q)) = 20
          /\ Cardinality(CorrectOf(usage, q)) = 19 )
        => /\ response'.evaluation.status = "too_easy"
           /\ response'.evaluation.should_retire
    ]_vars

\* C24: the checks are applied independently: a question with at least 10 answered
\* attempts, a correct rate below 30% and a quality score below the floor is returned
\* with both the too_difficult and the low_quality reason
EveryReasonReported ==
  [][ \A q \in QuestionIds :
        ( /\ Evaluated(q)
          /\ Cardinality(AnsweredOf(usage, q)) >= min_usage_for_evaluation
          /\ Cardinality(CorrectOf(usage, q)) * 100
               < min_correct_rate * Cardinality(AnsweredOf(usage, q))
          /\ questions[q].quality_score < QualityFloor )
        => {"too_difficult", "low_quality"} \subseteq response'.evaluation.reasons
    ]_vars

\* C25: evaluate_question_performance changes no stored field of any question and no
\* usage row
EvaluateIsReadOnly ==
  [][ \A q \in QuestionIds :
        Evaluated(q) => /\ questions' = questions
                        /\ usage' = usage
    ]_vars

\* C26: get_questions_to_retire returns exactly the questions with at least 10
\* answered attempts for which the evaluation reports should_retire
RetireListIsExact ==
  [][ (response'.op = "to_retire" /\ get_questions_to_retire)
      => {e.question_id : e \in response'.to_retire} =
           {q \in QuestionIds :
              /\ Cardinality(AnsweredOf(usage, q)) >= min_usage_for_evaluation
              /\ Evaluation(update_question_statistics(questions, usage, q), q).should_retire}
    ]_vars

\* C29: after retire_question the question's is_active flag is false and the question
\* row is still stored
RetireClearsActiveFlag ==
  [][ \A q \in QuestionIds, reason \in Reasons :
        ( /\ response'.op = "retire"
          /\ response'.question_id = q
          /\ retire_question(q, reason) )
        => /\ q \in DOMAIN questions'
           /\ ~questions'[q].is_active
    ]_vars

\* the distributions a selection is asked for: the default split or sulit only
Distributions(count) == {NoDist, [d \in {"sulit"} |-> count]}

\* C27: within one bucket (category, subject, requested subtype, difficulty, never
\* seen by the user) select_new_questions never returns a question while it leaves
\* unselected an eligible question of the bucket with a lower usage_count
SelectionPrefersLeastUsed ==
  Live =>
    \A u \in Users, subject \in {"tiu", "tkp"}, c \in 1..MaxCount, st \in Subtypes :
      \A dist \in Distributions(c) :
        \A r \in select_new_questions(questions, usage, u, "cpns", subject, c, dist, st) :
          \A q \in r.questions :
            \A e \in Eligible(usage, u, "cpns", subject, Bank[q].difficulty, st)
                       \ r.questions :
              questions[q].usage_count <= questions[e].usage_count

\* a session was created from the never-used question of a bucket while a question
\* of the same bucket that is used more, and that the user has not seen, was left out
LeastUsedWasChosen ==
  /\ response.op = "create"
  /\ response.code = 200
  /\ \E q, e \in QuestionIds :
       /\ freshOf[issued] = {q}
       /\ Bank[e].subject = Bank[q].subject
       /\ Bank[e].difficulty = Bank[q].difficulty
       /\ e \notin used_questions(usage, sessions[issued].user_id)
       /\ questions[e].usage_count > 0
       /\ questions[q].usage_count = 1

\* C28: after complete_session every question answered in the completed session has
\* correct_rate = (its usage rows with was_correct true) / (its usage rows with
\* user_answered true), counted over all sessions of all users
RateCountsAllSessions ==
  [][ \A u \in Users, s \in DOMAIN sessions :
        ( /\ response'.op = "submit"
          /\ response'.code = 200
          /\ \E a \in Submissions(s) : submit_session(u, s, a) )
        => \A i \in UsageOfSession(usage, s) :
             usage[i].user_answered =>
               LET q == usage[i].question_id
               IN questions'[q].correct_rate.num * Cardinality(AnsweredOf(usage, q))
                    = Cardinality(CorrectOf(usage, q)) * questions'[q].correct_rate.den
    ]_vars

\* a session was completed whose question is answered wrongly in it and correctly in
\* another session
CompletedWithMixedHistory ==
  /\ response.op = "submit"
  /\ response.code = 200
  /\ \E i, j \in 1..Len(usage) :
       /\ sessions[usage[i].session_id].status = "completed"
       /\ sessions[usage[i].session_id].completed_at = now
       /\ usage[i].was_correct = "False"
       /\ usage[i].user_answered
       /\ usage[j].question_id = usage[i].question_id
       /\ usage[j].session_id # usage[i].session_id
       /\ usage[j].was_correct = "True"

\* the questions stored for a category, subject and requested subtype
Stored(test_category, subject, subtype) ==
  {q \in QuestionIds : /\ Bank[q].test_category = test_category
                       /\ Bank[q].subject = subject
                       /\ (subtype # None => Bank[q].subtype = subtype)}

\* no question id occurs twice in the sequence
NoRepeat(ids) == \A i, j \in 1..Len(ids) : ids[i] = ids[j] => i = j

\* C30: a session persisted by create_new_session or create_exam_session holds no
\* question id twice, and a session from create_new_session has total_questions =
\* min(count, number of questions stored for the category, subject and subtype)
SessionFilledWithoutRepeats ==
  [][ /\ \A u \in Users, subject \in {"tiu", "tkp"}, c \in 1..MaxCount, st \in Subtypes :
           ( /\ response'.op = "create"
             /\ response'.code = 200
             /\ CreateNewSession(u, "cpns", subject, c, st) )
           => LET ids == FrozenOrder(sessions', issued')
                  stored == Cardinality(Stored("cpns", subject, st))
              IN /\ NoRepeat(ids)
                 /\ sessions'[issued'].total_questions = Len(ids)
                 /\ Len(ids) = IF c < stored THEN c ELSE stored
      /\ \A u \in Users :
           ( /\ response'.op = "create_exam"
             /\ response'.code = 200
             /\ CreateExamSession(u, "cpns") )
           => NoRepeat(FrozenOrder(sessions', issued'))
    ]_vars

\* a session of two questions has been created to which the backfill of old
\* questions contributed
FilledByRecycling ==
  /\ response.op = "create"
  /\ response.code = 200
  /\ sessions[issued].total_questions = 2
  /\ freshOf[issued] # Range(FrozenOrder(sessions, issued))
====
